---- MODULE Spec2Model ----
(***************************************************************************)
(* Model of fmp-openai.py: the pipeline of main() -- bulk list download,   *)
(* filtering, concurrent profile enrichment (update_with_profile), the     *)
(* sequential description rewrite loop and the CSV emission.               *)
(*                                                                         *)
(* Python values are modelled as follows.  A dict is a function from field *)
(* names to values.  The text values a remote service chooses (profile     *)
(* fields, rewritten texts) are sequences, so that concatenation and       *)
(* strip() are computed; the static fields of an instrument are strings.   *)
(* An optional value (None or a value) is a record with the flag `none`.   *)
(***************************************************************************)
EXTENDS Integers, Sequences, FiniteSets, TLC

(* ---------------------------- bounds ----------------------------------- *)

\* Longest list-test.json the model reads.
MaxListLen == 3

\* How often the merge of lines 114-123 is applied to one record in MergeSpec.
MaxMerges == 2

(* ---------------------------- input domains ---------------------------- *)

Symbols == {"A", "B", "C"}

\* (type, exchangeShortName, name) of the instruments the list may hold.
Variants ==
  { [type |-> "stock", exchangeShortName |-> "NASDAQ", name |-> "n1"],
    [type |-> "ETF",   exchangeShortName |-> "AMEX",   name |-> "n2"],
    [type |-> "fund",  exchangeShortName |-> "NYSE",   name |-> "n3"] }

Instruments ==
  { [symbol |-> s, type |-> v.type, exchangeShortName |-> v.exchangeShortName,
     name |-> v.name] : s \in Symbols, v \in Variants }

RECURSIVE ListsUpTo(_)
ListsUpTo(n) ==
  IF n = 0 THEN { <<>> }
  ELSE LET shorter == ListsUpTo(n - 1)
       IN  shorter \cup { Append(l, i) : l \in { x \in shorter : Len(x) = n - 1 },
                                          i \in Instruments }

\* The values config["rewrite_api"] is drawn from.
RewriteApis == {"openai", "Coze", "azure"}

\* str.lower() on the strings of the model.
Lower(str) ==
  CASE str = "ETF"    -> "etf"
    [] str = "Stock"  -> "stock"
    [] str = "Coze"   -> "coze"
    [] OTHER          -> str

(* ---------------------------- optional values -------------------------- *)

None == [none |-> TRUE]
Some(v) == [none |-> FALSE, val |-> v]

(* ---------------------------- HTTP responses --------------------------- *)

ProfileFields == {"currency", "industry", "sector", "country", "image", "description"}

StaticFields == {"symbol", "type", "exchangeShortName", "name"}

\* The complete profile object the profile endpoint holds for symbol s.
FullProfile(s) == [f \in ProfileFields |-> <<f, s>>]

\* A profile object without the field f.
ProfileWithout(s, f) == [g \in ProfileFields \ {f} |-> <<g, s>>]

Pending == [kind |-> "pending"]

TransportError == [kind |-> "exception"]

HttpResponse(status, body) == [kind |-> "response", status |-> status, body |-> body]

\* What the profile request for s can end in.
ProfileResponses(s) ==
  { HttpResponse(200, << FullProfile(s) >>),
    HttpResponse(200, << >>),
    HttpResponse(200, << ProfileWithout(s, "description") >>),
    HttpResponse(404, << >>),
    TransportError }

\* Variant of send_request: the status is not tested, the body is returned on
\* every response.
send_request_any_status(resp) ==
  IF resp.kind = "exception" THEN None ELSE Some(resp.body)

\* send_request: the parsed body on status 200, None on any other status and on
\* an exception of the transport.
send_request(resp) ==
  IF resp.kind = "exception" THEN None
  ELSE IF resp.status = 200 THEN Some(resp.body)
  ELSE None

(* ---------------------------- filtering -------------------------------- *)

\* Variant of Keep: the type is compared without lower().
KeepExactCase(item) ==
  /\ item.type \in {"stock", "etf"}
  /\ item.exchangeShortName \in {"AMEX", "NASDAQ"}

Keep(item) ==
  /\ Lower(item.type) \in {"stock", "etf"}
  /\ item.exchangeShortName \in {"AMEX", "NASDAQ"}

\* [item for item in data if ...]
Filter(data) == SelectSeq(data, Keep)

(* ---------------------------- the record collection -------------------- *)

\* Keys of {item['symbol']: item for item in filtered_data}, in insertion order:
\* a key keeps the place of its first occurrence.
RECURSIVE KeyOrder(_)
KeyOrder(list) ==
  IF list = <<>> THEN <<>>
  ELSE LET front == KeyOrder(SubSeq(list, 1, Len(list) - 1))
           s     == list[Len(list)].symbol
       IN  IF \E i \in 1..Len(front) : front[i] = s THEN front ELSE Append(front, s)

\* Variant of BuildMap: a key keeps the first item of the list that has it.
BuildMapFirstWins(list) ==
  [ s \in { list[i].symbol : i \in 1..Len(list) } |->
      list[ CHOOSE i \in 1..Len(list) :
              /\ list[i].symbol = s
              /\ \A j \in 1..(i - 1) : list[j].symbol # s ] ]

\* Values of that dict: the last item of the list with the key.
BuildMap(list) ==
  [ s \in { list[i].symbol : i \in 1..Len(list) } |->
      list[ CHOOSE i \in 1..Len(list) :
              /\ list[i].symbol = s
              /\ \A j \in (i + 1)..Len(list) : list[j].symbol # s ] ]

\* Variant of TaskSymbols: one task per candidate of the list instead of one per
\* key of the dict.
TaskSymbolsPerItem(list) == [ i \in 1..Len(list) |-> list[i].symbol ]

\* Line 106: the symbols the get_profile_data tasks are created for, the keys
\* of the dict built from list.
TaskSymbols(list) == KeyOrder(list)

\* Variant of LoopExhausted: the loop is left while requests are pending.
LoopLeftEarly(pending) == TRUE

\* Lines 109-126: the for loop over as_completed ends, and the function
\* returns, when no task is pending.
LoopExhausted(pending) == pending = {}

\* Variant of ItemKey: the completion is matched to the first record that has no
\* profile yet, that is by order of arrival instead of by symbol.
ItemKeyByArrival(symbol, map) ==
  IF \E k \in DOMAIN map : "description" \notin DOMAIN map[k]
  THEN CHOOSE k \in DOMAIN map : "description" \notin DOMAIN map[k]
  ELSE symbol

\* Variant of Values: only the records that received a profile are returned.
ValuesEnrichedOnly(order, map) ==
  LET HasProfile(rec) == "description" \in DOMAIN rec
  IN  SelectSeq([ i \in 1..Len(order) |-> map[order[i]] ], HasProfile)

\* Line 115, item = data_map[symbol]: the key of the record a completion updates
\* is the symbol get_profile_data returned with it.
ItemKey(symbol, map) == symbol

\* Line 126, list(data_map.values()): the records in insertion order of the keys.
Values(order, map) == [ i \in 1..Len(order) |-> map[order[i]] ]

\* Variant of MergeProfile: the whole first element of the body is merged
\* (item.update(profile_data[0])).
MergeWholeBody(item, body) ==
  [ k \in DOMAIN item \cup DOMAIN body[1] |->
      IF k \in DOMAIN body[1] THEN body[1][k] ELSE item[k] ]

\* Variant of MergeProfile: a profile field the item already holds is extended
\* by the new value instead of being overwritten.
MergeProfileAppending(item, body) ==
  [ k \in DOMAIN item \cup ProfileFields |->
      IF k \in ProfileFields
      THEN IF k \in DOMAIN item THEN item[k] \o body[1][k] ELSE body[1][k]
      ELSE item[k] ]

\* Whether the parsed body lets the dict literal of lines 116-123 be evaluated.
Subscriptable(body) == Len(body) > 0 /\ ProfileFields \subseteq DOMAIN body[1]

\* item.update({...}) of lines 116-123.
MergeProfile(item, body) ==
  [ k \in DOMAIN item \cup ProfileFields |->
      IF k \in ProfileFields THEN body[1][k] ELSE item[k] ]

(* ---------------------------- rewrite backends ---------------------- *)

\* Texts a rewrite backend may answer with (sequences of characters).
Texts == { <<"x">>, <<" ", "x", " ">> }

\* The whitespace characters of the model.
Whitespace == { " ", "\t" }

\* str.strip(): the text without its leading and trailing whitespace.
RECURSIVE LStrip(_)
LStrip(t) == IF t # <<>> /\ Head(t) \in Whitespace THEN LStrip(Tail(t)) ELSE t

RECURSIVE RStrip(_)
RStrip(t) ==
  IF t # <<>> /\ t[Len(t)] \in Whitespace
  THEN RStrip(SubSeq(t, 1, Len(t) - 1)) ELSE t

\* Variant of Strip: only the leading whitespace is removed (lstrip).
StripLeadingOnly(t) == LStrip(t)

Strip(t) == RStrip(LStrip(t))

\* What a rewrite request can end in.
RewriteResponses ==
  { HttpResponse(200, [messages |-> << [content |-> t] >>]) : t \in Texts }
  \cup { HttpResponse(200, [choices |-> << [text |-> t] >>]) : t \in Texts }
  \cup { HttpResponse(200, [messages |-> << >>]),
         HttpResponse(200, [choices |-> << >>]),
         HttpResponse(500, << >>),
         TransportError }

\* Variant of rewrite_with_coze: a body without messages[0].content gives the
\* empty text instead of None.
rewrite_with_coze_default(resp) ==
  LET res_json == send_request(resp)
  IN  IF res_json.none THEN None
      ELSE IF /\ "messages" \in DOMAIN res_json.val
              /\ Len(res_json.val.messages) > 0
              /\ "content" \in DOMAIN res_json.val.messages[1]
           THEN Some(res_json.val.messages[1].content)
           ELSE Some(<< >>)

\* rewrite_with_coze, after the request: messages[0].content, or None when
\* send_request gave None or the subscripts raise.
rewrite_with_coze(resp) ==
  LET res_json == send_request(resp)
  IN  IF res_json.none THEN None
      ELSE IF /\ "messages" \in DOMAIN res_json.val
              /\ Len(res_json.val.messages) > 0
              /\ "content" \in DOMAIN res_json.val.messages[1]
           THEN Some(res_json.val.messages[1].content)
           ELSE None

\* rewrite_with_openai, after the request: choices[0].text.strip(), or None.
rewrite_with_openai(resp) ==
  LET response_data == send_request(resp)
  IN  IF response_data.none THEN None
      ELSE IF /\ "choices" \in DOMAIN response_data.val
              /\ Len(response_data.val.choices) > 0
              /\ "text" \in DOMAIN response_data.val.choices[1]
           THEN Some(Strip(response_data.val.choices[1].text))
           ELSE None

\* The prompt main appends to the description.
Prompt == << "Can you rewrite the following text with a maximum of 50 words?" >>

ValidRewriteApi(api) == Lower(api) \in {"openai", "coze"}

(* ---------------------------- bulk list -------------------------------- *)

\* Bodies the bulk list endpoint may answer with.
BulkLists ==
  { << [symbol |-> "A", type |-> "stock", exchangeShortName |-> "NASDAQ", name |-> "n1"] >> }

(* ---------------------------- state ------------------------------------ *)

VARIABLES
  rewrite_api,        \* config["rewrite_api"]
  pc,                 \* where main is
  error,              \* the exception that ended the run, "none" while there is none
  list_json,          \* the file list.json: None until written
  data,               \* main: the list loaded from list-test.json
  filtered_data,      \* main: the candidates
  data_map,           \* update_with_profile: symbol -> record
  key_order,          \* update_with_profile: the keys of data_map in insertion order
  profile_response,   \* symbol -> what its profile request ended in, Pending before
  in_flight,          \* symbols whose profile request is issued and not completed
  merge_count,        \* symbol -> executions of the update of lines 115-123
  updated_data,       \* main: the list update_with_profile returned
  idx,                \* main: position of the rewrite loop, then of the row loop
  rewrite_in_flight,  \* the rewrite request awaited, None when there is none
  rewritten_description, \* main: result of the last rewrite call
  calls,              \* HTTP requests issued so far, by kind
  output              \* output.csv: header (None until written) and rows

vars == << rewrite_api, pc, error, list_json, data, filtered_data, data_map, key_order,
           profile_response, in_flight, merge_count, updated_data, idx,
           rewrite_in_flight, rewritten_description, calls, output >>

NoCalls ==
  [bulk |-> 0, profile |-> [s \in Symbols |-> 0], rewrite |-> [s \in Symbols |-> 0]]

Init ==
  /\ rewrite_api \in RewriteApis
  /\ pc = "start"
  /\ error = "none"
  /\ list_json = None
  /\ data = <<>>
  /\ filtered_data = <<>>
  /\ data_map = << >>
  /\ key_order = <<>>
  /\ profile_response = << >>
  /\ in_flight = {}
  /\ merge_count = [s \in Symbols |-> 0]
  /\ updated_data = <<>>
  /\ idx = 0
  /\ rewrite_in_flight = None
  /\ rewritten_description = None
  /\ calls = NoCalls
  /\ output = [header |-> None, rows |-> <<>>]

\* An uncaught exception ends the run.
Abort(e) ==
  /\ pc' = "aborted"
  /\ error' = e

(* ---------------------------- main: lines 221-229 ---------------------- *)

\* get_available_traded: one GET; the body is dumped to list.json.
GetAvailableTraded ==
  /\ pc = "start"
  /\ calls' = [calls EXCEPT !.bulk = @ + 1]
  /\ \/ \E body \in BulkLists :
          /\ list_json' = Some(body)
          /\ pc' = "load"
          /\ error' = error
     \/ /\ Abort("RequestException")
        /\ list_json' = list_json
  /\ UNCHANGED << rewrite_api, data, filtered_data, data_map, key_order, profile_response,
                  in_flight, merge_count, updated_data, idx, rewrite_in_flight,
                  rewritten_description, output >>

\* Lines 225-226: json.load of list-test.json, whose content is one of lists.
LoadFrom(lists) ==
  /\ pc = "load"
  /\ data' \in lists
  /\ pc' = "filter"
  /\ UNCHANGED << rewrite_api, error, list_json, filtered_data, data_map, key_order,
                  profile_response, in_flight, merge_count, updated_data, idx,
                  rewrite_in_flight, rewritten_description, calls, output >>

Load == LoadFrom(ListsUpTo(MaxListLen))

\* Lines 228-229: the list comprehension builds a new list from data.
FilterCandidates ==
  /\ pc = "filter"
  /\ filtered_data' = Filter(data)
  /\ pc' = "enrich"
  /\ UNCHANGED << rewrite_api, error, list_json, data, data_map, key_order,
                  profile_response, in_flight, merge_count, updated_data, idx,
                  rewrite_in_flight, rewritten_description, calls, output >>

(* ---------------------------- update_with_profile ---------------------- *)

\* Lines 100-109: the dict is built and as_completed schedules one
\* get_profile_data task per key; each runs to its request.
StartProfileTasks ==
  /\ pc = "enrich"
  /\ data_map' = BuildMap(filtered_data)
  /\ key_order' = KeyOrder(filtered_data)
  /\ profile_response' = [s \in DOMAIN BuildMap(filtered_data) |-> Pending]
  /\ in_flight' = DOMAIN BuildMap(filtered_data)
  /\ calls' = [calls EXCEPT !.profile =
                 [s \in Symbols |->
                    @[s] + Cardinality({ i \in DOMAIN TaskSymbols(filtered_data) :
                                           TaskSymbols(filtered_data)[i] = s })]]
  /\ pc' = "fetching"
  /\ UNCHANGED << rewrite_api, error, list_json, data, filtered_data, merge_count,
                  updated_data, idx, rewrite_in_flight, rewritten_description, output >>

\* The exception the dict literal of lines 116-123 raises on this body.
SubscriptError(body) == IF Len(body) = 0 THEN "IndexError" ELSE "KeyError"

\* The request of s completes with resp; get_profile_data returns
\* (send_request(resp), s) and the loop body of lines 111-123 consumes it.
\* Completions are consumed in the order they arrive, so the two are one step.
\* An exception of the dict literal leaves the function; the tasks still
\* pending are dropped with the event loop.
CompleteProfile(s, resp) ==
  /\ pc = "fetching"
  /\ s \in in_flight
  /\ profile_response' = [profile_response EXCEPT ![s] = resp]
  /\ LET profile_data == send_request(resp)
     IN  IF profile_data.none
         THEN /\ in_flight' = in_flight \ {s}
              /\ UNCHANGED << pc, error, data_map, merge_count >>
         ELSE IF Subscriptable(profile_data.val)
         THEN /\ in_flight' = in_flight \ {s}
              /\ data_map' = [data_map EXCEPT ![ItemKey(s, data_map)] =
                                                 MergeProfile(@, profile_data.val)]
              /\ merge_count' = [merge_count EXCEPT ![s] = @ + 1]
              /\ UNCHANGED << pc, error >>
         ELSE /\ Abort(SubscriptError(profile_data.val))
              /\ in_flight' = {}
              /\ UNCHANGED << data_map, merge_count >>
  /\ UNCHANGED << rewrite_api, list_json, data, filtered_data, key_order, updated_data,
                  idx, rewrite_in_flight, rewritten_description, calls, output >>

\* Line 126: every task has been consumed; list(data_map.values()).
ReturnUpdated ==
  /\ pc = "fetching"
  /\ LoopExhausted(in_flight)
  /\ updated_data' = Values(key_order, data_map)
  /\ idx' = 1
  /\ pc' = "rewrite"
  /\ UNCHANGED << rewrite_api, error, list_json, data, filtered_data, data_map, key_order,
                  profile_response, in_flight, merge_count, rewrite_in_flight,
                  rewritten_description, calls, output >>

(* ---------------------------- main: the rewrite loop ------------------- *)

\* Line 239: no item is left; the session is closed and main goes on to line 257.
RewriteLoopEnd ==
  /\ pc = "rewrite"
  /\ idx > Len(updated_data)
  /\ pc' = "emit"
  /\ UNCHANGED << rewrite_api, error, list_json, data, filtered_data, data_map, key_order,
                  profile_response, in_flight, merge_count, updated_data, idx,
                  rewrite_in_flight, rewritten_description, calls, output >>

\* Line 240: item['description'] on a record without the key.
RewriteMissingDescription ==
  /\ pc = "rewrite"
  /\ idx <= Len(updated_data)
  /\ "description" \notin DOMAIN updated_data[idx]
  /\ Abort("KeyError")
  /\ UNCHANGED << rewrite_api, list_json, data, filtered_data, data_map, key_order,
                  profile_response, in_flight, merge_count, updated_data, idx,
                  rewrite_in_flight, rewritten_description, calls, output >>

\* Lines 245-250: rewrite_api is neither 'openai' nor 'coze'.
RewriteInvalidBackend ==
  /\ pc = "rewrite"
  /\ idx <= Len(updated_data)
  /\ "description" \in DOMAIN updated_data[idx]
  /\ ~ ValidRewriteApi(rewrite_api)
  /\ Abort("ValueError: Invalid rewrite_api value")
  /\ UNCHANGED << rewrite_api, list_json, data, filtered_data, data_map, key_order,
                  profile_response, in_flight, merge_count, updated_data, idx,
                  rewrite_in_flight, rewritten_description, calls, output >>

\* Lines 240-248 up to the await: the POST of the selected backend is sent.
RewriteIssue ==
  /\ pc = "rewrite"
  /\ idx <= Len(updated_data)
  /\ "description" \in DOMAIN updated_data[idx]
  /\ ValidRewriteApi(rewrite_api)
  /\ rewrite_in_flight' = Some([backend |-> Lower(rewrite_api),
                                text |-> updated_data[idx].description \o Prompt])
  /\ calls' = [calls EXCEPT !.rewrite[updated_data[idx].symbol] = @ + 1]
  /\ pc' = "await_rewrite"
  /\ UNCHANGED << rewrite_api, error, list_json, data, filtered_data, data_map, key_order,
                  profile_response, in_flight, merge_count, updated_data, idx,
                  rewritten_description, output >>

\* item.update({"description-new": ...}) of line 254.
AttachRewrite(item, text) ==
  [ k \in DOMAIN item \cup {"description-new"} |->
      IF k = "description-new" THEN text ELSE item[k] ]

\* Lines 253-254: the item after the rewrite call returned result.
UpdateDescription(item, result) ==
  IF result.none THEN item ELSE AttachRewrite(item, result.val)

\* What the rewrite call of the selected backend returns on resp.
RewriteResult(backend, resp) ==
  IF backend = "openai" THEN rewrite_with_openai(resp) ELSE rewrite_with_coze(resp)

\* The awaited rewrite call returns; lines 253-254.
RewriteComplete(resp) ==
  /\ pc = "await_rewrite"
  /\ LET result == RewriteResult(rewrite_in_flight.val.backend, resp)
     IN  /\ rewritten_description' = result
         /\ updated_data' = [updated_data EXCEPT ![idx] = UpdateDescription(@, result)]
  /\ rewrite_in_flight' = None
  /\ idx' = idx + 1
  /\ pc' = "rewrite"
  /\ UNCHANGED << rewrite_api, error, list_json, data, filtered_data, data_map, key_order,
                  profile_response, in_flight, merge_count, calls, output >>

(* ---------------------------- main: lines 257-262 ---------------------- *)

\* Line 257 on an empty list: updated_data[0].
EmitNothing ==
  /\ pc = "emit"
  /\ updated_data = <<>>
  /\ Abort("IndexError")
  /\ UNCHANGED << rewrite_api, list_json, data, filtered_data, data_map, key_order,
                  profile_response, in_flight, merge_count, updated_data, idx,
                  rewrite_in_flight, rewritten_description, calls, output >>

\* Lines 257-260: the header is the key list of the first record.
EmitHeader ==
  /\ pc = "emit"
  /\ updated_data # <<>>
  /\ output' = [output EXCEPT !.header = Some(DOMAIN updated_data[1])]
  /\ idx' = 1
  /\ pc' = "emit_rows"
  /\ UNCHANGED << rewrite_api, error, list_json, data, filtered_data, data_map, key_order,
                  profile_response, in_flight, merge_count, updated_data,
                  rewrite_in_flight, rewritten_description, calls >>

\* What DictWriter writes for a row: a missing key gives the empty string.
CsvRow(fieldnames, row) ==
  [ k \in fieldnames |-> IF k \in DOMAIN row THEN row[k] ELSE << >> ]

\* Lines 261-262: writer.writerow(row); DictWriter raises ValueError on a row
\* with a key that is not a fieldname.
EmitRow ==
  /\ pc = "emit_rows"
  /\ idx <= Len(updated_data)
  /\ IF DOMAIN updated_data[idx] \subseteq output.header.val
     THEN /\ output' = [output EXCEPT
                          !.rows = Append(@, CsvRow(output.header.val, updated_data[idx]))]
          /\ idx' = idx + 1
          /\ pc' = IF idx = Len(updated_data) THEN "done" ELSE "emit_rows"
          /\ error' = error
     ELSE /\ Abort("ValueError: dict contains fields not in fieldnames")
          /\ UNCHANGED << output, idx >>
  /\ UNCHANGED << rewrite_api, list_json, data, filtered_data, data_map, key_order,
                  profile_response, in_flight, merge_count, updated_data,
                  rewrite_in_flight, rewritten_description, calls >>

(* ---------------------------- specification ---------------------------- *)

Next ==
  \/ GetAvailableTraded
  \/ Load
  \/ FilterCandidates
  \/ StartProfileTasks
  \/ \E s \in Symbols : \E resp \in ProfileResponses(s) : CompleteProfile(s, resp)
  \/ ReturnUpdated
  \/ RewriteLoopEnd
  \/ RewriteMissingDescription
  \/ RewriteInvalidBackend
  \/ RewriteIssue
  \/ \E resp \in RewriteResponses : RewriteComplete(resp)
  \/ EmitNothing
  \/ EmitHeader
  \/ EmitRow

Spec == Init /\ [][Next]_vars

(* ---------------------------- vocabulary of the properties -------------- *)

\* update_with_profile has returned (ReturnUpdated sets idx to 1).
Returned == idx > 0

\* get_available_traded has returned.
BulkDone == ~ list_json.none

\* The request ended in status 200 with a first element holding the six fields.
CompleteResponse(r) ==
  /\ r.kind = "response"
  /\ r.status = 200
  /\ Len(r.body) > 0
  /\ ProfileFields \subseteq DOMAIN r.body[1]

\* The request ended in a non-200 status or in an exception of the transport.
FailedResponse(r) ==
  \/ r.kind = "exception"
  \/ r.kind = "response" /\ r.status # 200

\* Status 200 with an empty array or a first element lacking a profile field.
MalformedResponse(r) ==
  /\ r.kind = "response"
  /\ r.status = 200
  /\ ~ CompleteResponse(r)

\* The symbols of the candidates handed to update_with_profile.
InputSymbols == { filtered_data[i].symbol : i \in 1..Len(filtered_data) }

\* The record the candidates hold for s (the last entry with that symbol).
InputRecord(s) ==
  filtered_data[ CHOOSE i \in 1..Len(filtered_data) :
                   /\ filtered_data[i].symbol = s
                   /\ \A j \in 1..Len(filtered_data) :
                        filtered_data[j].symbol = s => j <= i ]

\* What the record of s must be once its request has ended in r: a function of
\* the input and of r alone.
ExpectedRecord(s, r) ==
  IF CompleteResponse(r)
  THEN [ k \in StaticFields \cup ProfileFields |->
           IF k \in ProfileFields THEN r.body[1][k] ELSE InputRecord(s)[k] ]
  ELSE InputRecord(s)

(* ---------------------------- C1 --------------------------------------- *)

\* C1: when every profile fetch ends in a complete profile or in a failure,
\* update_with_profile returns (no exception leaves it), and the list it returns
\* holds a record for every symbol of its input list.
C1_NoSymbolDropped ==
  /\ Returned =>
       \A s \in InputSymbols : \E i \in 1..Len(updated_data) : updated_data[i].symbol = s
  /\ (pc = "aborted" /\ BulkDone /\ ~ Returned) =>
       \E s \in DOMAIN profile_response : MalformedResponse(profile_response[s])

\* Three candidates, one fetch failed and one succeeded, and the function returned.
C1_Witness ==
  /\ Returned
  /\ Cardinality(InputSymbols) = 3
  /\ \E s \in InputSymbols : FailedResponse(profile_response[s])
  /\ \E s \in InputSymbols : CompleteResponse(profile_response[s])

(* ---------------------------- C2 --------------------------------------- *)

\* C2: the collection update_with_profile ends with is determined by the input
\* and by the outcome of each fetch, whatever the order of the completions: the
\* record of every symbol is its input record, with the six fields of its own
\* response when that response was complete.
C2_OrderIndependent ==
  Returned =>
    /\ DOMAIN data_map = InputSymbols
    /\ \A s \in InputSymbols : data_map[s] = ExpectedRecord(s, profile_response[s])

\* Two fetches succeeded and a third failed, in some order of completion.
C2_Witness ==
  /\ Returned
  /\ Cardinality({ s \in InputSymbols : CompleteResponse(profile_response[s]) }) = 2
  /\ Cardinality({ s \in InputSymbols : FailedResponse(profile_response[s]) }) = 1

(* ---------------------------- C3 --------------------------------------- *)

\* Every profile request has ended: one in a non-200 status, all others in a
\* complete profile; there are at least two candidates and the backend is valid.
OneFetchFailedOthersSucceeded ==
  /\ ValidRewriteApi(rewrite_api)
  /\ Returned
  /\ Cardinality(InputSymbols) >= 2
  /\ \E b \in InputSymbols :
       /\ profile_response[b].kind = "response"
       /\ profile_response[b].status # 200
       /\ \A s \in InputSymbols \ {b} : CompleteResponse(profile_response[s])

\* The rows of output.csv are the candidates, one row each, with their static
\* fields; a row carries the profile fields exactly when its fetch succeeded.
RowsAsClaimed ==
  /\ Len(output.rows) = Cardinality(InputSymbols)
  /\ \A s \in InputSymbols : \E i \in 1..Len(output.rows) :
       /\ output.rows[i]["symbol"] = s
       /\ \A k \in StaticFields : output.rows[i][k] = InputRecord(s)[k]
       /\ CompleteResponse(profile_response[s]) =>
            \A k \in ProfileFields : output.rows[i][k] = profile_response[s].body[1][k]
       /\ ~ CompleteResponse(profile_response[s]) =>
            \A k \in ProfileFields \cap DOMAIN output.rows[i] : output.rows[i][k] = << >>

\* C3 (the claim as stated): when one profile fetch fails with a non-200 status
\* and the others succeed, the run is not ended by an exception and the output
\* it writes has one row per candidate, enriched exactly where the fetch succeeded.
C3_Original ==
  OneFetchFailedOthersSucceeded =>
    /\ pc # "aborted"
    /\ pc = "done" => RowsAsClaimed

(* ---------------------------- C4 --------------------------------------- *)

\* C4 (the claim as stated): with a valid backend and a non-empty candidate list,
\* however many profile fetches and rewrite calls fail (non-200 or transport
\* error), no exception ends the run before output.csv is written.
C4_Original ==
  ( /\ ValidRewriteApi(rewrite_api)
    /\ BulkDone
    /\ filtered_data # << >>
    /\ \A s \in DOMAIN profile_response : ~ MalformedResponse(profile_response[s]) )
  => pc # "aborted"

(* ---------------------------- C5 --------------------------------------- *)

\* C5 (the claim as stated): when the run is ended by the invalid-backend error,
\* no HTTP request (bulk list, profile, rewrite) has been issued.
C5_Original ==
  (pc = "aborted" /\ error = "ValueError: Invalid rewrite_api value") => calls = NoCalls

(* ---------------------------- C6 --------------------------------------- *)

\* The profile request of s was consumed by the loop of lines 109-123.
Consumed(s) == s \in DOMAIN profile_response /\ profile_response[s] # Pending

\* C6: a profile fetch that ended in a non-200 status or a transport exception
\* gives None; its record keeps exactly its input fields (none of the six
\* profile fields), every consumed complete response is merged into its own
\* record, and no exception leaves update_with_profile on account of it: the
\* function is only ever left by an exception when a 200 body is malformed.
C6_FailedFetchIsNoData ==
  /\ \A s \in DOMAIN profile_response :
       FailedResponse(profile_response[s]) =>
         /\ send_request(profile_response[s]) = None
         /\ DOMAIN data_map[s] \cap ProfileFields = {}
         /\ data_map[s] = InputRecord(s)
  /\ \A s \in DOMAIN profile_response :
       CompleteResponse(profile_response[s]) =>
         \A k \in ProfileFields : data_map[s][k] = profile_response[s].body[1][k]
  /\ (pc = "aborted" /\ BulkDone /\ ~ Returned) =>
       \E s \in DOMAIN profile_response : MalformedResponse(profile_response[s])

\* update_with_profile returned after a non-200 status, a transport exception
\* and a complete profile were consumed.
C6_Witness ==
  /\ Returned
  /\ \E s \in InputSymbols : profile_response[s] = TransportError
  /\ \E s \in InputSymbols :
       profile_response[s].kind = "response" /\ profile_response[s].status = 404
  /\ \E s \in InputSymbols :
       CompleteResponse(profile_response[s]) /\ "description" \in DOMAIN data_map[s]

(* ---------------------------- C7 --------------------------------------- *)

\* C7 (the claim as stated): a 200 response with an empty array, or with a first
\* element lacking one of the six fields, leaves its record with its input
\* fields and does not end the run.
C7_Original ==
  \A s \in DOMAIN profile_response :
    MalformedResponse(profile_response[s]) =>
      /\ pc # "aborted"
      /\ data_map[s] = InputRecord(s)

(* ---------------------------- C8 --------------------------------------- *)

\* The rewrite call of the backend fails on r: non-200 status, transport error,
\* or a 200 body without messages[0].content (coze) / choices[0].text (openai).
RewriteFails(backend, r) ==
  \/ r.kind = "exception"
  \/ r.status # 200
  \/ /\ backend = "coze"
     /\ ~ ( /\ "messages" \in DOMAIN r.body
            /\ Len(r.body.messages) > 0
            /\ "content" \in DOMAIN r.body.messages[1] )
  \/ /\ backend = "openai"
     /\ ~ ( /\ "choices" \in DOMAIN r.body
            /\ Len(r.body.choices) > 0
            /\ "text" \in DOMAIN r.body.choices[1] )

\* C8: in the rewrite loop, the step in which the awaited rewrite call fails
\* leaves every record as it was (the record keeps its description and gets no
\* description-new), raises nothing, and moves the loop on to the next record.
C8_FailedRewriteGoesOn ==
  [][ \A r \in RewriteResponses :
        ( /\ pc = "await_rewrite"
          /\ RewriteFails(rewrite_in_flight.val.backend, r)
          /\ RewriteComplete(r) )
        => /\ updated_data' = updated_data
           /\ "description-new" \notin DOMAIN updated_data'[idx]
           /\ rewritten_description' = None
           /\ error' = "none"
           /\ pc' = "rewrite"
           /\ idx' = idx + 1 ]_vars

\* The rewrite call of the first record failed and the request for the second
\* record has been issued.
C8_Witness ==
  /\ pc = "await_rewrite"
  /\ idx = 2
  /\ rewritten_description = None
  /\ "description-new" \notin DOMAIN updated_data[1]
  /\ calls.rewrite[updated_data[2].symbol] = 1

(* ---------------------------- C9 --------------------------------------- *)

\* A state of update_with_profile with every request in flight.
MergeInit ==
  /\ rewrite_api = "openai"
  /\ pc = "fetching"
  /\ error = "none"
  /\ list_json \in { Some(b) : b \in BulkLists }
  /\ data \in ListsUpTo(MaxListLen)
  /\ filtered_data = Filter(data)
  /\ data_map = BuildMap(filtered_data)
  /\ key_order = KeyOrder(filtered_data)
  /\ profile_response = [s \in DOMAIN data_map |-> Pending]
  /\ in_flight = DOMAIN data_map
  /\ merge_count = [s \in Symbols |-> 0]
  /\ updated_data = <<>>
  /\ idx = 0
  /\ rewrite_in_flight = None
  /\ rewritten_description = None
  /\ calls = [NoCalls EXCEPT !.bulk = 1,
                             !.profile = [s \in Symbols |->
                                            IF s \in DOMAIN data_map THEN 1 ELSE 0]]
  /\ output = [header |-> None, rows |-> <<>>]

\* Lines 114-123 once more on the record of s, with the response already merged.
MergeAgain(s) ==
  /\ pc = "fetching"
  /\ s \in DOMAIN profile_response
  /\ CompleteResponse(profile_response[s])
  /\ merge_count[s] < MaxMerges
  /\ data_map' = [data_map EXCEPT ![ItemKey(s, data_map)] =
                    MergeProfile(@, send_request(profile_response[s]).val)]
  /\ merge_count' = [merge_count EXCEPT ![s] = @ + 1]
  /\ UNCHANGED << rewrite_api, pc, error, list_json, data, filtered_data, key_order,
                  profile_response, in_flight, updated_data, idx, rewrite_in_flight,
                  rewritten_description, calls, output >>

MergeNext ==
  \/ \E s \in Symbols : \E resp \in ProfileResponses(s) : CompleteProfile(s, resp)
  \/ \E s \in Symbols : MergeAgain(s)

MergeSpec == MergeInit /\ [][MergeNext]_vars

\* C9: the record of a symbol whose successful response was merged once or more
\* has exactly the field values one merge of that response into the input
\* record gives.
C9_MergeIdempotent ==
  \A s \in DOMAIN data_map :
    merge_count[s] >= 1 =>
      data_map[s] = MergeProfile(InputRecord(s), profile_response[s].body)

\* The same response was merged twice into the record of some symbol.
C9_Witness == \E s \in DOMAIN data_map : merge_count[s] = 2

(* ---------------------------- C10 -------------------------------------- *)

\* A cap below the size of the largest collection of the model.
FanOutCap == Cardinality(Symbols) - 1

\* C10 (the claim as stated): the number of profile requests in flight never
\* exceeds a fixed cap, however many symbols the collection holds.
C10_Original == Cardinality(in_flight) <= FanOutCap

(* ---------------------------- C11 -------------------------------------- *)

\* update_with_profile has started its tasks.
TasksStarted == BulkDone /\ pc \notin {"start", "load", "filter", "enrich"}

\* C11: once update_with_profile has started its tasks, and whatever the
\* requests end in, exactly one profile request has been issued for each
\* distinct symbol of the candidates and none for any other symbol; before
\* that none has been issued.
C11_OneRequestPerSymbol ==
  /\ TasksStarted =>
       /\ DOMAIN profile_response = InputSymbols
       /\ \A s \in Symbols : calls.profile[s] = IF s \in InputSymbols THEN 1 ELSE 0
  /\ ~ TasksStarted => \A s \in Symbols : calls.profile[s] = 0

\* The function returned after a failed request, for a list that holds a
\* symbol twice: one request was issued for either symbol.
C11_Witness ==
  /\ Returned
  /\ Len(filtered_data) > Cardinality(InputSymbols)
  /\ \E s \in InputSymbols :
       FailedResponse(profile_response[s]) /\ calls.profile[s] = 1
  /\ \E s \in InputSymbols :
       CompleteResponse(profile_response[s]) /\ calls.profile[s] = 1

(* ---------------------------- C12 -------------------------------------- *)

\* Longest text the completion backend answers with in StripSpec.
MaxTextLen == 4

\* The characters of those texts: two kinds of whitespace and a letter.
Chars == Whitespace \cup { "x" }

RECURSIVE TextsUpTo(_)
TextsUpTo(n) ==
  IF n = 0 THEN { << >> }
  ELSE LET shorter == TextsUpTo(n - 1)
       IN  shorter \cup { Append(t, c) : t \in { x \in shorter : Len(x) = n - 1 },
                                          c \in Chars }

\* The texts the completion backend answers with in StripSpec.
StripTexts == TextsUpTo(MaxTextLen)

\* A 200 response of the completion backend whose choices[0].text is t.
CompletionAnswer(t) == HttpResponse(200, [choices |-> << [text |-> t] >>])

\* The enriched record update_with_profile returns for the instrument item.
Enriched(item) == MergeProfile(item, << FullProfile(item.symbol) >>)

\* States of main at the head of the rewrite loop: the candidate of a list of
\* one instrument was enriched.
StripInit ==
  /\ rewrite_api \in RewriteApis
  /\ pc = "rewrite"
  /\ error = "none"
  /\ list_json \in { Some(b) : b \in BulkLists }
  /\ data \in { l \in ListsUpTo(1) : l # << >> /\ Filter(l) = l }
  /\ filtered_data = data
  /\ key_order = KeyOrder(filtered_data)
  /\ data_map = [s \in DOMAIN BuildMap(filtered_data) |->
                   Enriched(BuildMap(filtered_data)[s])]
  /\ profile_response = [s \in DOMAIN data_map |->
                           HttpResponse(200, << FullProfile(s) >>)]
  /\ in_flight = {}
  /\ merge_count = [s \in Symbols |-> IF s \in DOMAIN data_map THEN 1 ELSE 0]
  /\ updated_data = Values(key_order, data_map)
  /\ idx = 1
  /\ rewrite_in_flight = None
  /\ rewritten_description = None
  /\ calls = [NoCalls EXCEPT !.bulk = 1,
                             !.profile = [s \in Symbols |->
                                            IF s \in DOMAIN data_map THEN 1 ELSE 0]]
  /\ output = [header |-> None, rows |-> <<>>]

\* The rewrite loop, the backend answering with any text of the bound.
StripNext ==
  \/ RewriteIssue
  \/ RewriteInvalidBackend
  \/ \E t \in StripTexts : RewriteComplete(CompletionAnswer(t))
  \/ RewriteLoopEnd

StripSpec == StripInit /\ [][StripNext]_vars

\* d is t without its leading and trailing whitespace: a slice of t that
\* neither starts nor ends with whitespace, all of t outside it being whitespace.
IsTrimOf(d, t) ==
  \E i \in 1..(Len(t) + 1) : \E j \in 0..Len(t) :
    /\ d = SubSeq(t, i, j)
    /\ \A k \in 1..Len(t) : (k < i \/ k > j) => t[k] \in Whitespace
    /\ d # << >> => d[1] \notin Whitespace /\ d[Len(d)] \notin Whitespace

\* C12: with the openai backend, the step in which the rewrite call returns a
\* response whose choices[0].text is t stores as description-new of the record
\* the text t without its leading and trailing whitespace, its interior unchanged.
C12_DescriptionNewIsStripped ==
  [][ \A t \in StripTexts :
        ( /\ pc = "await_rewrite"
          /\ rewrite_in_flight.val.backend = "openai"
          /\ RewriteComplete(CompletionAnswer(t)) )
        => /\ "description-new" \in DOMAIN updated_data'[idx]
           /\ IsTrimOf(updated_data'[idx]["description-new"], t) ]_vars

\* With the openai backend a record holds a rewritten text with whitespace
\* inside it and none around it.
C12_Witness ==
  /\ Lower(rewrite_api) = "openai"
  /\ pc = "rewrite"
  /\ idx = 2
  /\ "description-new" \in DOMAIN updated_data[1]
  /\ updated_data[1]["description-new"] = << "x", "\t", "x" >>

(* ---------------------------- C13 -------------------------------------- *)

\* Instruments of FilterSpec: every spelling of type and exchangeShortName the
\* filter has to tell apart.
FilterInstruments ==
  { [symbol |-> "A", type |-> t, exchangeShortName |-> e, name |-> "n1"] :
      t \in {"stock", "Stock", "ETF", "fund"}, e \in {"NASDAQ", "AMEX", "nasdaq"} }

RECURSIVE ListsOver(_, _)
ListsOver(items, n) ==
  IF n = 0 THEN { <<>> }
  ELSE LET shorter == ListsOver(items, n - 1)
       IN  shorter \cup { Append(l, i) : l \in { x \in shorter : Len(x) = n - 1 },
                                          i \in items }

FilterLists == ListsOver(FilterInstruments, MaxListLen)

\* main after get_available_traded, before list-test.json is read.
FilterInit ==
  /\ rewrite_api \in RewriteApis
  /\ pc = "load"
  /\ error = "none"
  /\ list_json \in { Some(b) : b \in BulkLists }
  /\ data = <<>>
  /\ filtered_data = <<>>
  /\ data_map = << >>
  /\ key_order = <<>>
  /\ profile_response = << >>
  /\ in_flight = {}
  /\ merge_count = [s \in Symbols |-> 0]
  /\ updated_data = <<>>
  /\ idx = 0
  /\ rewrite_in_flight = None
  /\ rewritten_description = None
  /\ calls = [NoCalls EXCEPT !.bulk = 1]
  /\ output = [header |-> None, rows |-> <<>>]

FilterNext ==
  \/ LoadFrom(FilterLists)
  \/ FilterCandidates

FilterSpec == FilterInit /\ [][FilterNext]_vars

\* The instrument is a stock or an ETF, in any letter case, of AMEX or NASDAQ.
IsCandidate(item) ==
  /\ item.type \in {"stock", "Stock", "etf", "ETF"}
  /\ item.exchangeShortName \in {"AMEX", "NASDAQ"}

\* The positions of list d that hold a candidate.
CandidatePositions(d) == { k \in 1..Len(d) : IsCandidate(d[k]) }

\* fd is d restricted to its candidates, in the order of d.
IsSelectionOf(fd, d) ==
  /\ Len(fd) = Cardinality(CandidatePositions(d))
  /\ \A i \in 1..Len(fd) :
       fd[i] = d[ CHOOSE k \in CandidatePositions(d) :
                    Cardinality({ j \in CandidatePositions(d) : j <= k }) = i ]

\* C13: the filtering step leaves the input list as it was and yields exactly
\* its instruments whose type is 'stock' or 'etf' in any letter case and whose
\* exchangeShortName is exactly 'AMEX' or 'NASDAQ', in their order in the input.
C13_FilterExactOrdered ==
  [][ pc = "filter" => /\ data' = data
                       /\ IsSelectionOf(filtered_data', data) ]_vars

\* A list of three was filtered to two: an upper-case ETF and a capitalised
\* stock were kept in their order, a lower-case exchange name was dropped.
C13_Witness ==
  /\ pc = "enrich"
  /\ Len(data) = 3
  /\ data[1].type = "ETF" /\ data[1].exchangeShortName = "AMEX"
  /\ data[2].type = "stock" /\ data[2].exchangeShortName = "nasdaq"
  /\ data[3].type = "Stock" /\ data[3].exchangeShortName = "NASDAQ"
  /\ filtered_data = << data[1], data[3] >>

(* ---------------------------- C14 -------------------------------------- *)

\* C14 (the claim as stated): once the header is written, with the keys of the
\* first record, no error ends the emission, whatever the keys of the other
\* records; the finished file holds one row per record.
C14_Original ==
  /\ ~ output.header.none =>
       /\ output.header.val = DOMAIN updated_data[1]
       /\ pc # "aborted"
  /\ pc = "done" => Len(output.rows) = Len(updated_data)

(* ---------------------------- C15 -------------------------------------- *)

\* A complete profile object that names the symbol t in its own symbol field.
ProfileNaming(t) == ("symbol" :> t) @@ FullProfile(t)

\* What the profile request for s can end in, in FrameSpec: also a complete
\* profile that belongs to another symbol.
FrameResponses(s) ==
  ProfileResponses(s)
    \cup { HttpResponse(200, << ProfileNaming(t) >>) : t \in Symbols \ {s} }

FrameNext ==
  \E s \in Symbols : \E resp \in FrameResponses(s) : CompleteProfile(s, resp)

FrameSpec == MergeInit /\ [][FrameNext]_vars

\* C15: whatever completions were merged, the record kept under a symbol s has
\* the static fields of its input record, no field besides those and the six
\* profile fields, and profile fields only from the response to the request
\* issued for s (even when that body names another symbol); the record of a
\* symbol whose own request brought no complete profile is its input record.
C15_MergeFrame ==
  \A s \in DOMAIN data_map :
    /\ \A k \in StaticFields : data_map[s][k] = InputRecord(s)[k]
    /\ DOMAIN data_map[s] \subseteq StaticFields \cup ProfileFields
    /\ IF CompleteResponse(profile_response[s])
       THEN \A k \in ProfileFields : data_map[s][k] = profile_response[s].body[1][k]
       ELSE data_map[s] = InputRecord(s)

\* The request for s brought the profile of another symbol t: the record of s
\* took its six fields, the record of t, whose request is pending, did not change.
C15_Witness ==
  \E s \in DOMAIN data_map : \E t \in DOMAIN data_map \ {s} :
    /\ profile_response[s] = HttpResponse(200, << ProfileNaming(t) >>)
    /\ data_map[s]["description"] = << "description", t >>
    /\ data_map[s]["symbol"] = s
    /\ profile_response[t] = Pending
    /\ data_map[t] = InputRecord(t)

(* ---------------------------- C16 -------------------------------------- *)

\* The loop of lines 239-254 is over: it ran to its end or an exception left it.
RewriteStepOver ==
  \/ pc \in {"emit", "emit_rows", "done"}
  \/ pc = "aborted" /\ Returned

\* C16 (the claim as stated): the rewrite step leaves every field that
\* update_with_profile returned as it was and removes none, the only key it adds
\* is description-new, added to a record whose one request was sent, and when
\* the step is over exactly one rewrite request has been sent for each record
\* that has a description.
C16_Original ==
  Returned =>
    \A i \in 1..Len(updated_data) :
      LET item == updated_data[i]
          kept == data_map[key_order[i]]
      IN  /\ DOMAIN kept \subseteq DOMAIN item
          /\ DOMAIN item \subseteq DOMAIN kept \cup {"description-new"}
          /\ \A k \in DOMAIN kept : item[k] = kept[k]
          /\ calls.rewrite[item.symbol] <= 1
          /\ "description-new" \in DOMAIN item => calls.rewrite[item.symbol] = 1
          /\ (RewriteStepOver /\ "description" \in DOMAIN item)
               => calls.rewrite[item.symbol] = 1

(* ---------------------------- C17 -------------------------------------- *)

\* Every profile request that was launched has completed and has been merged.
ProfileStageOver ==
  /\ in_flight = {}
  /\ \A s \in DOMAIN profile_response :
       /\ profile_response[s] # Pending
       /\ CompleteResponse(profile_response[s])
            => merge_count[s] = 1 /\ ProfileFields \subseteq DOMAIN data_map[s]

\* A rewrite request has been issued.
RewriteStarted ==
  \/ ~ rewrite_in_flight.none
  \/ \E s \in Symbols : calls.rewrite[s] > 0

\* Something has been written to output.csv.
OutputStarted == ~ output.header.none \/ Len(output.rows) > 0

\* C17: the stages never overlap. update_with_profile has returned only when
\* every launched fetch has completed and been merged, a rewrite request is
\* issued only after that, and nothing is written to the output while a profile
\* or a rewrite request is in flight.
C17_StagesNeverOverlap ==
  /\ (Returned \/ RewriteStarted \/ OutputStarted) => ProfileStageOver
  /\ RewriteStarted => Returned
  /\ OutputStarted => /\ rewrite_in_flight.none
                      /\ pc \notin {"fetching", "rewrite", "await_rewrite"}

\* A rewrite request is in flight after two profile requests were launched and
\* both have completed.
C17_Witness ==
  /\ pc = "await_rewrite"
  /\ ~ rewrite_in_flight.none
  /\ Cardinality(DOMAIN profile_response) >= 2
  /\ ProfileStageOver

(* ---------------------------- C18 -------------------------------------- *)

\* The positions of the candidate list that hold the symbol s.
EntriesOf(s) == { i \in 1..Len(filtered_data) : filtered_data[i].symbol = s }

\* The symbol s occurs more than once among the candidates.
Duplicated(s) == Cardinality(EntriesOf(s)) > 1

\* C18: for every symbol of the candidate list, also one that occurs several
\* times, the collection holds one record, carrying the static fields of the
\* last entry with that symbol; one profile request is issued for the symbol,
\* and the returned list holds exactly one record per distinct symbol.
C18_LastWriteWins ==
  TasksStarted =>
    /\ \A i \in 1..Len(filtered_data) :
         LET s == filtered_data[i].symbol
         IN  /\ s \in DOMAIN data_map
             /\ calls.profile[s] = 1
             /\ (\A j \in (i + 1)..Len(filtered_data) : filtered_data[j].symbol # s)
                  => \A k \in StaticFields : data_map[s][k] = filtered_data[i][k]
             /\ Returned =>
                  Cardinality({ n \in 1..Len(updated_data) :
                                  updated_data[n].symbol = s }) = 1
    /\ \A s \in DOMAIN data_map : \E i \in 1..Len(filtered_data) : filtered_data[i].symbol = s
    /\ Returned => Len(updated_data) = Cardinality(DOMAIN data_map)

\* The function returned for a list that holds a symbol twice with different
\* content: its one record has the name of the later entry.
C18_Witness ==
  /\ Returned
  /\ \E s \in InputSymbols :
       /\ Duplicated(s)
       /\ \E i \in EntriesOf(s) : \E j \in EntriesOf(s) :
            /\ i < j
            /\ filtered_data[i].name # filtered_data[j].name
            /\ \A m \in EntriesOf(s) : m <= j
            /\ \E n \in 1..Len(updated_data) :
                 /\ updated_data[n].symbol = s
                 /\ updated_data[n].name = filtered_data[j].name

(* ---------------------------- C19 -------------------------------------- *)

\* The filtering stage has read its input file.
InputRead == pc \notin {"start", "load"} /\ BulkDone

\* C19 (the claim as stated): what the filtering stage reads is the list that
\* get_available_traded persisted in this run, so every candidate is an
\* element of that list.
C19_Original ==
  InputRead =>
    /\ data = list_json.val
    /\ \A i \in 1..Len(Filter(data)) :
         \E j \in 1..Len(list_json.val) : Filter(data)[i] = list_json.val[j]

====
